---- MODULE Spec2Model ----
(***************************************************************************)
(* Model of runtime/service.go of micro: the run, kill and ps/get commands *)
(* (runService, killService, getService) driving a runtime backend.        *)
(*                                                                         *)
(* Strings are sequences of one-character strings, so that the path and    *)
(* environment helpers (filepath.Base, strings.Split, strings.TrimSpace,   *)
(* strings.HasPrefix) are computed character by character.                 *)
(* Plugin initialisation (p.Init) and the backends themselves are external *)
(* collaborators: a backend call is recorded and returns success or an     *)
(* error nondeterministically.                                             *)
(***************************************************************************)
EXTENDS Naturals, Sequences, FiniteSets

VARIABLES
    cmd,          \* which command this invocation runs: "run", "kill", "get"
    args,         \* ctx.Args(): the positional arguments
    nameFlag,     \* ctx.String("name")
    versionFlag,  \* ctx.String("version")
    sourceFlag,   \* ctx.String("source")
    envFlag,      \* ctx.StringSlice("env")
    local,        \* ctx.Bool("local")
    runType,      \* ctx.Bool("runtime")
    osEnviron,    \* os.Environ()
    cwd,          \* the working directory, "" when os.Getwd fails
    pc,           \* position of the command in its function
    status,       \* how the command ended ("" while it has not; the signal when killed)
    name,         \* runService's local `name`
    source,       \* runService's local `source`
    exec,         \* runService's local `exec`
    service,      \* the *runtime.Service built by the command (<<>> = not built)
    backend,      \* the selected backend: "none", "local", "remote"
    started,      \* the backend has been started and not stopped
    calls,        \* the backend calls issued, in order, with their outcome
    initArgs,     \* arguments of the Init calls (the notifier's name, version, source)
    createArgs,   \* arguments of the Create calls
    deleteArgs,   \* arguments of the Delete calls
    readArgs,     \* arguments of the Read calls
    notified,     \* signal.Notify(shutdown, ...) has been called
    shutdown,     \* the buffered channel `shutdown` (capacity 1)
    received,     \* the signals taken from `shutdown` by the command
    sigCount,     \* number of signals delivered to the process so far
    stdout,       \* what the command printed
    chdir,        \* os.Chdir(source) in runService: "none" (not tried), "ok", "failed"
    services      \* getService's `services` as the backend returned them

vars == <<cmd, args, nameFlag, versionFlag, sourceFlag, envFlag, local, runType,
          osEnviron, cwd, pc, status, name, source, exec, service, backend,
          started, calls, initArgs, createArgs, deleteArgs, readArgs, notified,
          shutdown, received, sigCount, stdout, chdir, services>>

inputs == <<cmd, args, nameFlag, versionFlag, sourceFlag, envFlag, local,
            runType, osEnviron>>

-----------------------------------------------------------------------------
(* Bounds of the model *)

\* longest source path drawn for the positional argument and the source flag
MaxPathLen == 3
\* longest --env flag value drawn
MaxEnvLen == 3
\* most ambient environment variables drawn
MaxAmbient == 2
\* most signals delivered to one invocation
MaxSignals == 2
\* most services a backend query returns
MaxServices == 2

-----------------------------------------------------------------------------
(* Strings *)

EmptyStr == <<>>

\* all strings over the alphabet `chars` of length at most n
RECURSIVE StringsUpTo(_, _)
StringsUpTo(chars, n) ==
    IF n = 0 THEN {EmptyStr}
    ELSE LET shorter == StringsUpTo(chars, n - 1)
         IN  shorter \cup {Append(s, c) : s \in shorter, c \in chars}

\* all sequences over `S` of length at most n
RECURSIVE SeqsUpTo(_, _)
SeqsUpTo(S, n) ==
    IF n = 0 THEN {<<>>}
    ELSE LET shorter == SeqsUpTo(S, n - 1)
         IN  shorter \cup {Append(s, x) : s \in shorter, x \in S}

Sep == "/"
Comma == ","
Space == " "

Tail2(s, i) == SubSeq(s, i, Len(s))

\* strings.HasPrefix(s, prefix)
HasPrefix(s, prefix) ==
    /\ Len(s) >= Len(prefix)
    /\ SubSeq(s, 1, Len(prefix)) = prefix

\* strings.Split(s, sep) for a one-character separator: the substrings between
\* the separators, empty ones included; a string without separator gives <<s>>
RECURSIVE Split(_, _)
Split(s, sep) ==
    LET hits == {i \in 1..Len(s) : s[i] = sep}
    IN  IF hits = {} THEN <<s>>
        ELSE LET i == CHOOSE k \in hits : \A j \in hits : k <= j
             IN  <<SubSeq(s, 1, i - 1)>> \o Split(Tail2(s, i + 1), sep)

\* strings.TrimSpace(s): leading and trailing white space removed
RECURSIVE TrimLeft(_)
TrimLeft(s) ==
    IF Len(s) > 0 /\ s[1] = Space THEN TrimLeft(Tail(s)) ELSE s

RECURSIVE TrimRight(_)
TrimRight(s) ==
    IF Len(s) > 0 /\ s[Len(s)] = Space
    THEN TrimRight(SubSeq(s, 1, Len(s) - 1)) ELSE s

TrimSpace(s) == TrimRight(TrimLeft(s))

\* filepath.Base(path) on a slash-separated system: "." for the empty path,
\* trailing separators stripped, then the part after the last separator,
\* "/" when nothing is left
RECURSIVE StripTrailingSep(_)
StripTrailingSep(p) ==
    IF Len(p) > 0 /\ p[Len(p)] = Sep
    THEN StripTrailingSep(SubSeq(p, 1, Len(p) - 1)) ELSE p

AfterLastSep(p) ==
    LET hits == {i \in 1..Len(p) : p[i] = Sep}
    IN  IF hits = {} THEN p
        ELSE LET i == CHOOSE k \in hits : \A j \in hits : k >= j
             IN  Tail2(p, i + 1)

Base(path) ==
    IF path = EmptyStr THEN <<".">>
    ELSE LET p == AfterLastSep(StripTrailingSep(path))
         IN  IF p = EmptyStr THEN <<Sep>> ELSE p

\* the order of single characters used by Go's string comparison (byte order)
CharRank(c) ==
    CASE c = " " -> 1
      [] c = "," -> 2
      [] c = "." -> 3
      [] c = "/" -> 4
      [] c = "A" -> 5
      [] c = "_" -> 6
      [] c = "a" -> 7
      [] c = "b" -> 8
      [] OTHER   -> 9

\* s < t on Go strings: lexicographic, a proper prefix is smaller
RECURSIVE StrLess(_, _)
StrLess(s, t) ==
    IF t = EmptyStr THEN FALSE
    ELSE IF s = EmptyStr THEN TRUE
    ELSE IF s[1] = t[1] THEN StrLess(Tail(s), Tail(t))
    ELSE CharRank(s[1]) < CharRank(t[1])

-----------------------------------------------------------------------------
(* String literals of the program *)

\* the reserved positional keyword "service"
SERVICE == <<"s", "e", "r", "v", "i", "c", "e">>
\* the prefix "MICRO_" of the environment variables passed through
MicroPrefix == <<"M", "I", "C", "R", "O", "_">>
GO == <<"g", "o">>
RUN == <<"r", "u", "n">>
DOT == <<".">>
\* the sentinel "n/a" of the table
NA == <<"n", "/", "a">>

-----------------------------------------------------------------------------
(* Inputs drawn *)

PathChars == {"a", "b", Sep}
Paths == StringsUpTo(PathChars, MaxPathLen)

EnvChars == {"A", Comma, Space}
\* the --env flag values: every list of entries whose characters and entry
\* boundaries together number at most MaxEnvLen
EnvFlagLists ==
    {<<>>} \cup {Split(s, ";") : s \in StringsUpTo(EnvChars \cup {";"}, MaxEnvLen)}

MICRO_A == MicroPrefix \o <<"A">>
MICRO_B == MicroPrefix \o <<"B">>
PATHVAR == <<"P", "A", "T", "H">>
MICROVAR == <<"M", "I", "C", "R", "O">>
AmbientVars == {MICRO_A, MICRO_B, PATHVAR, MICROVAR}
Environs == SeqsUpTo(AmbientVars, MaxAmbient)

DEMO == <<"d", "e", "m", "o">>
LATEST == <<"l", "a", "t", "e", "s", "t">>
SomeSource == <<"a", Sep, "b">>
SomeEnv == <<"A", Comma, Space, Comma, "A">>
Cwds == {EmptyStr, <<Sep>>, <<Sep, "w">>}

Signals == {"SIGINT", "SIGTERM", "SIGQUIT", "SIGHUP"}

-----------------------------------------------------------------------------
(* Init: a command is about to be invoked with some flags and arguments.   *)
(* The inputs are drawn in families, each varying some of them widely.     *)

\* the three commands with flags and arguments from small sets
InputsGeneral ==
    /\ cmd \in {"run", "kill", "get"}
    /\ args \in {<<>>, <<SERVICE>>, <<SomeSource>>, <<EmptyStr>>}
    /\ nameFlag \in {EmptyStr, DEMO}
    /\ versionFlag \in {EmptyStr, LATEST}
    /\ sourceFlag \in IF cmd = "run" THEN {EmptyStr, SomeSource} ELSE {EmptyStr}
    /\ envFlag \in IF cmd = "run" THEN {<<>>, <<SomeEnv>>} ELSE {<<>>}
    /\ local \in BOOLEAN
    /\ runType \in IF cmd = "get" THEN BOOLEAN ELSE {FALSE}
    /\ osEnviron = <<PATHVAR, MICRO_A>>
    /\ cwd \in IF cmd = "run" THEN Cwds ELSE {<<Sep, "w">>}

\* run with every source path, given by flag or by positional argument
InputsPaths ==
    /\ cmd = "run"
    /\ \/ /\ sourceFlag \in Paths
          /\ args \in {<<>>, <<SERVICE>>}
       \/ /\ sourceFlag \in {EmptyStr, <<"b">>}
          /\ args \in {<<p>> : p \in Paths}
    /\ nameFlag \in {EmptyStr, DEMO}
    /\ versionFlag = EmptyStr
    /\ envFlag = <<>>
    /\ local \in BOOLEAN
    /\ runType = FALSE
    /\ osEnviron = <<PATHVAR, MICRO_A>>
    /\ cwd \in Cwds

\* run with every --env flag list and every ambient environment
InputsEnv ==
    /\ cmd = "run"
    /\ args = <<SERVICE>>
    /\ sourceFlag = SomeSource
    /\ nameFlag = EmptyStr
    /\ versionFlag = EmptyStr
    /\ \/ /\ envFlag \in EnvFlagLists
          /\ osEnviron \in {<<>>, <<PATHVAR, MICRO_A>>}
       \/ /\ envFlag \in {<<>>, <<SomeEnv>>}
          /\ osEnviron \in Environs
    /\ local \in BOOLEAN
    /\ runType = FALSE
    /\ cwd = <<Sep, "w">>

Init ==
    /\ InputsGeneral \/ InputsPaths \/ InputsEnv
    /\ pc = "entry"
    /\ status = ""
    /\ name = EmptyStr
    /\ source = EmptyStr
    /\ exec = <<>>
    /\ service = <<>>
    /\ backend = "none"
    /\ started = FALSE
    /\ calls = <<>>
    /\ initArgs = <<>>
    /\ createArgs = <<>>
    /\ deleteArgs = <<>>
    /\ readArgs = <<>>
    /\ notified = FALSE
    /\ shutdown = <<>>
    /\ received = <<>>
    /\ sigCount = 0
    /\ stdout = <<>>
    /\ chdir = "none"
    /\ services = <<>>

-----------------------------------------------------------------------------
(* Helpers of the commands *)

Call(op, ok) == [op |-> op, ok |-> ok]
Line(kind, text) == [kind |-> kind, text |-> text]

\* the command returns: nothing more happens in this invocation
Return(how) ==
    /\ pc' = "done"
    /\ status' = how

\* defaultEnv(): the ambient variables that carry the prefix MICRO_
RECURSIVE defaultEnv(_)
defaultEnv(environ) ==
    IF environ = <<>> THEN <<>>
    ELSE (IF HasPrefix(Head(environ), MicroPrefix) THEN <<Head(environ)>> ELSE <<>>)
         \o defaultEnv(Tail(environ))

\* the inner loop of runService over the segments of one --env entry
\* (lines 131-135): the segment is tested for emptiness, then trimmed
RECURSIVE AddSegments(_, _)
AddSegments(environment, segs) ==
    IF segs = <<>> THEN environment
    ELSE AddSegments(
             IF Len(Head(segs)) > 0
             THEN Append(environment, TrimSpace(Head(segs)))
             ELSE environment,
             Tail(segs))

\* the outer loop of runService over the --env entries
RECURSIVE AddEnvFlags(_, _)
AddEnvFlags(environment, env) ==
    IF env = <<>> THEN environment
    ELSE AddEnvFlags(AddSegments(environment, Split(Head(env), Comma)), Tail(env))

\* the environment handed to Create
ComposeEnv(environ, env) == AddEnvFlags(defaultEnv(environ), env)

\* the source after the positional argument has been looked at (lines 61-65)
ResolveSource(positional, flag) ==
    IF positional[1] # SERVICE THEN positional[1] ELSE flag

\* the service name (lines 70-78)
\* faulty variant: the whole source is taken as the name
ResolveNameWholeSource(nflag, src, dir) ==
    IF Len(nflag) = 0
    THEN IF Len(src) > 0 THEN src ELSE Base(dir)
    ELSE nflag

ResolveName(nflag, src, dir) ==
    IF Len(nflag) = 0
    THEN IF Len(src) > 0 THEN Base(src) ELSE Base(dir)
    ELSE nflag

\* exec in local mode; chdirOK is whether os.Chdir(source) succeeded
\* faulty variant: a source that is given is always the target
LocalExecAlwaysSource(src, chdirOK) ==
    IF Len(src) > 0 THEN <<GO, RUN, src>> ELSE <<GO, RUN, DOT>>

LocalExec(src, chdirOK) ==
    IF Len(src) > 0 /\ ~chdirOK THEN <<GO, RUN, src>> ELSE <<GO, RUN, DOT>>

\* exec in remote mode (line 111)
\* faulty variant: the direct invocation of local mode
RemoteExecDirect(src) == <<GO, RUN, DOT>>

RemoteExec(src) == <<GO, RUN, src>>

\* line 107: the remote backend is not used without a source
\* faulty variant: the check is missing
MissingSourceUnchecked(src) == FALSE

MissingSource(src) == Len(src) = 0

\* the working directory after os.Chdir(dir) succeeded
Chdir(dir, to) ==
    IF Len(to) > 0 /\ to[1] = Sep THEN to ELSE dir \o <<Sep>> \o to

-----------------------------------------------------------------------------
(* runService *)

\* the *runtime.Service of line 120
NewService(nm, src, ver) ==
    [Name |-> nm, Source |-> src, Version |-> ver, Metadata |-> <<>>]

\* lines 48-112: argument check, the flags, name resolution, backend selection
RunResolve ==
    /\ cmd = "run"
    /\ pc = "entry"
    /\ IF Len(args) = 0
       THEN /\ stdout' = Append(stdout, Line("usage", "RunUsage"))
            /\ Return("usage")
            /\ UNCHANGED <<name, source, exec, backend, calls, initArgs, cwd, chdir>>
       ELSE LET src == ResolveSource(args, sourceFlag)
                nm == ResolveName(nameFlag, src, cwd)
            IN  /\ name' = nm
                /\ source' = src
                /\ IF local
                   THEN \E chdirOK \in BOOLEAN, initOK \in BOOLEAN :
                        /\ backend' = "local"
                        /\ exec' = LocalExec(src, chdirOK)
                        /\ cwd' = IF Len(src) > 0 /\ chdirOK THEN Chdir(cwd, src) ELSE cwd
                        /\ chdir' = IF Len(src) = 0 THEN "none"
                                     ELSE IF chdirOK THEN "ok" ELSE "failed"
                        /\ calls' = Append(calls, Call("Init", initOK))
                        /\ initArgs' = Append(initArgs,
                                          [Name |-> nm, Version |-> versionFlag, Source |-> src])
                        /\ IF initOK
                           THEN /\ pc' = "start"
                                /\ UNCHANGED <<status, stdout>>
                           ELSE /\ stdout' = Append(stdout, Line("error", "Could not start notifier"))
                                /\ Return("notifierErr")
                   ELSE /\ backend' = "remote"
                        /\ UNCHANGED <<calls, initArgs, cwd, chdir>>
                        /\ IF MissingSource(src)
                           THEN /\ stdout' = Append(stdout, Line("usage", "RunUsage"))
                                /\ Return("missingSource")
                                /\ UNCHANGED exec
                           ELSE /\ exec' = RemoteExec(src)
                                /\ pc' = "start"
                                /\ UNCHANGED <<status, stdout>>
    /\ UNCHANGED <<inputs, services, service, started, createArgs, deleteArgs,
                   readArgs, notified, shutdown, received, sigCount>>

\* after r.Start() returned: lines 115-118
\* faulty variant: the error of Start is ignored
AfterStartIgnoringError(ok) ==
    /\ started' = ok
    /\ pc' = "create"
    /\ UNCHANGED <<status, stdout>>

AfterStart(ok) ==
    IF ok
    THEN /\ started' = TRUE
         /\ pc' = "create"
         /\ UNCHANGED <<status, stdout>>
    ELSE /\ stdout' = Append(stdout, Line("error", "Could not start"))
         /\ Return("startErr")
         /\ UNCHANGED started

\* lines 114-118: r.Start()
RunStart ==
    /\ cmd = "run"
    /\ pc = "start"
    /\ \E ok \in BOOLEAN :
        /\ calls' = Append(calls, Call("Start", ok))
        /\ AfterStart(ok)
    /\ UNCHANGED <<inputs, services, chdir, cwd, name, source, exec, service, backend, initArgs,
                   createArgs, deleteArgs, readArgs, notified, shutdown, received,
                   sigCount>>

\* after a successful Create: line 153, `if local`
\* faulty variant: the signal wait is entered in remote mode too
AfterCreateAlwaysWaiting ==
    /\ pc' = "notify"
    /\ UNCHANGED status

AfterCreate ==
    IF local
    THEN /\ pc' = "notify"
         /\ UNCHANGED status
    ELSE Return("ok")

\* after a failed Create: lines 147-150
\* faulty variant: the error is printed and the command goes on
CreateFailedGoingOn ==
    /\ stdout' = Append(stdout, Line("error", "Create"))
    /\ AfterCreate

CreateFailed ==
    /\ stdout' = Append(stdout, Line("error", "Create"))
    /\ Return("createErr")

\* lines 120-150: the service, the environment, r.Create(service, opts...)
RunCreate ==
    /\ cmd = "run"
    /\ pc = "create"
    /\ LET svc == NewService(name, source, versionFlag)
           environment == ComposeEnv(osEnviron, envFlag)
       IN  /\ service' = <<svc>>
           /\ createArgs' = Append(createArgs,
                               [service |-> svc, exec |-> exec, env |-> environment])
    /\ \E ok \in BOOLEAN :
        /\ calls' = Append(calls, Call("Create", ok))
        /\ IF ok
           THEN /\ AfterCreate
                /\ UNCHANGED stdout
           ELSE CreateFailed
    /\ UNCHANGED <<inputs, services, chdir, cwd, name, source, exec, backend, started, initArgs,
                   deleteArgs, readArgs, notified, shutdown, received, sigCount>>

\* lines 154-155: the channel and signal.Notify
RunNotify ==
    /\ cmd = "run"
    /\ pc = "notify"
    /\ notified' = TRUE
    /\ pc' = "wait"
    /\ UNCHANGED <<inputs, services, chdir, cwd, status, name, source, exec, service, backend,
                   started, calls, initArgs, createArgs, deleteArgs, readArgs,
                   shutdown, received, sigCount, stdout>>

\* line 158: <-shutdown, which blocks while the channel is empty
\* faulty variant: the wait gives up without a signal
RunWaitTimingOut ==
    /\ cmd = "run"
    /\ pc = "wait"
    /\ pc' = "delete"
    /\ UNCHANGED <<inputs, services, chdir, cwd, status, name, source, exec, service, backend,
                   started, calls, initArgs, createArgs, deleteArgs, readArgs,
                   notified, shutdown, received, sigCount, stdout>>

RunWait ==
    /\ cmd = "run"
    /\ pc = "wait"
    /\ Len(shutdown) > 0
    /\ received' = Append(received, Head(shutdown))
    /\ shutdown' = Tail(shutdown)
    /\ pc' = "delete"
    /\ UNCHANGED <<inputs, services, chdir, cwd, status, name, source, exec, service, backend,
                   started, calls, initArgs, createArgs, deleteArgs, readArgs,
                   notified, sigCount, stdout>>

\* after r.Delete(service) returned in runService: lines 161-164
\* faulty variant: Stop is attempted whatever Delete returned
AfterDeleteAlwaysStopping(ok) ==
    /\ pc' = "stop"
    /\ UNCHANGED <<status, stdout>>

\* faulty variant: the command returns after Delete, Stop is forgotten
AfterDeleteReturning(ok) ==
    /\ UNCHANGED stdout
    /\ Return(IF ok THEN "ok" ELSE "deleteErr")

AfterDelete(ok) ==
    IF ok
    THEN /\ pc' = "stop"
         /\ UNCHANGED <<status, stdout>>
    ELSE /\ stdout' = Append(stdout, Line("error", "Delete"))
         /\ Return("deleteErr")

\* lines 160-164: r.Delete(service)
RunDelete ==
    /\ cmd = "run"
    /\ pc = "delete"
    /\ \E ok \in BOOLEAN :
        /\ calls' = Append(calls, Call("Delete", ok))
        /\ deleteArgs' = Append(deleteArgs, service[1])
        /\ AfterDelete(ok)
    /\ UNCHANGED <<inputs, services, chdir, cwd, name, source, exec, service, backend, started,
                   initArgs, createArgs, readArgs, notified, shutdown, received,
                   sigCount>>

\* lines 166-169: r.Stop()
RunStop ==
    /\ cmd = "run"
    /\ pc = "stop"
    /\ \E ok \in BOOLEAN :
        /\ calls' = Append(calls, Call("Stop", ok))
        /\ IF ok
           THEN /\ started' = FALSE
                /\ Return("ok")
                /\ UNCHANGED stdout
           ELSE /\ stdout' = Append(stdout, Line("error", "Stop"))
                /\ Return("stopErr")
                /\ UNCHANGED started
    /\ UNCHANGED <<inputs, services, chdir, cwd, name, source, exec, service, backend, initArgs,
                   createArgs, deleteArgs, readArgs, notified, shutdown, received,
                   sigCount>>

runService ==
    \/ RunResolve
    \/ RunStart
    \/ RunCreate
    \/ RunNotify
    \/ RunWait
    \/ RunDelete
    \/ RunStop

-----------------------------------------------------------------------------
(* Signals *)

\* the capacity of the channel: make(chan os.Signal, 1)
ShutdownCap == 1

\* the signals runService registers for
Qualifying == {"SIGTERM", "SIGINT", "SIGQUIT"}

\* A signal reaches the process while the command runs. Registered signals
\* go to the channel when it has room and are dropped when it is full;
\* any other signal takes its default action, which ends the process.
DeliverSignal ==
    /\ pc \notin {"done", "killed"}
    /\ sigCount < MaxSignals
    /\ \E sig \in Signals :
        IF notified /\ sig \in Qualifying
        THEN /\ shutdown' = IF Len(shutdown) < ShutdownCap THEN Append(shutdown, sig) ELSE shutdown
             /\ sigCount' = sigCount + 1
             /\ UNCHANGED <<pc, status>>
        ELSE /\ pc' = "killed"
             /\ status' = sig
             /\ sigCount' = sigCount + 1
             /\ UNCHANGED shutdown
    /\ UNCHANGED <<inputs, services, chdir, cwd, name, source, exec, service, backend, started,
                   calls, initArgs, createArgs, deleteArgs, readArgs, notified,
                   received, stdout>>

-----------------------------------------------------------------------------
(* killService *)

\* lines 175 and 185: kill wants the keyword "service" and a name
\* faulty variant: the name is not required
KillUsageWithoutNameCheck == Len(args) = 0 \/ args[1] # SERVICE

KillUsageNeeded == Len(args) = 0 \/ args[1] # SERVICE \/ Len(nameFlag) = 0

\* lines 198-201: the service to delete
\* faulty variant: the version is left out
KillDescriptionWithoutVersion(nflag, vflag) ==
    [Name |-> nflag, Source |-> EmptyStr, Version |-> EmptyStr, Metadata |-> <<>>]

KillDescription(nflag, vflag) ==
    [Name |-> nflag, Source |-> EmptyStr, Version |-> vflag, Metadata |-> <<>>]

\* lines 173-207; the backend is selected and Delete is called on it at once
killService ==
    /\ cmd = "kill"
    /\ pc = "entry"
    /\ IF KillUsageNeeded
       THEN /\ stdout' = Append(stdout, Line("usage", "KillUsage"))
            /\ Return("usage")
            /\ UNCHANGED <<backend, service, calls, deleteArgs>>
       ELSE LET svc == KillDescription(nameFlag, versionFlag)
            IN  /\ backend' = IF local THEN "local" ELSE "remote"
                /\ service' = <<svc>>
                /\ \E ok \in BOOLEAN :
                    /\ calls' = Append(calls, Call("Delete", ok))
                    /\ deleteArgs' = Append(deleteArgs, svc)
                    /\ IF ok
                       THEN /\ Return("ok")
                            /\ UNCHANGED stdout
                       ELSE /\ stdout' = Append(stdout, Line("error", "Delete"))
                            /\ Return("deleteErr")
    /\ UNCHANGED <<inputs, services, chdir, cwd, name, source, exec, started, initArgs, createArgs,
                   readArgs, notified, shutdown, received, sigCount>>

-----------------------------------------------------------------------------
(* getService *)

MetaKeys == {"status", "build", "owner", "group"}

\* service.Metadata[k]: the empty string when the key is absent
MetaGet(m, k) == IF k \in DOMAIN m THEN m[k] ELSE EmptyStr

UP == <<"u", "p">>

\* the services a backend may answer with: all fields empty, all fields set,
\* or some set, some empty and some absent
ServicePool ==
    {[Name |-> n, Source |-> EmptyStr, Version |-> EmptyStr, Metadata |-> <<>>]
        : n \in {EmptyStr, <<"a">>, <<"b">>}}
    \cup
    {[Name |-> n, Source |-> SomeSource, Version |-> LATEST,
      Metadata |-> [status |-> UP, build |-> <<"b">>, owner |-> <<"a">>, group |-> <<"A">>]]
        : n \in {EmptyStr, <<"a">>, <<"b">>}}
    \cup
    {[Name |-> n, Source |-> EmptyStr, Version |-> LATEST,
      Metadata |-> [status |-> UP, owner |-> EmptyStr]]
        : n \in {EmptyStr, <<"a">>, <<"b">>}}

ServiceLists == SeqsUpTo(ServicePool, MaxServices)

\* parse of line 273
parse(m) == IF Len(m) = 0 THEN NA ELSE m

OWNER_EQ == <<"o", "w", "n", "e", "r", "=">>
GROUP_EQ == <<Comma, "g", "r", "o", "u", "p", "=">>

Header == <<"NAME", "VERSION", "SOURCE", "STATUS", "BUILD", "METADATA">>

\* one row of the table: lines 290-296
Row(s) ==
    <<s.Name,
      parse(s.Version),
      parse(s.Source),
      parse(MetaGet(s.Metadata, "status")),
      parse(MetaGet(s.Metadata, "build")),
      OWNER_EQ \o parse(MetaGet(s.Metadata, "owner"))
          \o GROUP_EQ \o parse(MetaGet(s.Metadata, "group"))>>

\* the outcomes of sort.Slice(services, less by Name): every arrangement of
\* the same services in which no service is followed by one of smaller name
\* (the sort is not stable)
\* faulty variant: the services are left in the order of the backend
SortedAsReturned(svcs) == {svcs}

Sorted(svcs) ==
    LET n == Len(svcs)
        perms == {f \in [1..n -> 1..n] : \A i, j \in 1..n : i # j => f[i] # f[j]}
    IN  {[i \in 1..n |-> svcs[f[i]]] : f \in
            {g \in perms : \A i \in 1..n, j \in 1..n :
                i < j => ~StrLess(svcs[g[j]].Name, svcs[g[i]].Name)}}

\* lines 280-298: the table
RECURSIVE Rows(_)
Rows(svcs) ==
    IF svcs = <<>> THEN <<>>
    ELSE <<Line("row", Row(Head(svcs)))>> \o Rows(Tail(svcs))

\* faulty variant: the header is printed for an empty list too
RenderAlwaysHeader(sorted) == <<Line("header", Header)>> \o Rows(sorted)

Render(sorted) ==
    IF Len(sorted) = 0 THEN <<>>
    ELSE <<Line("header", Header)>> \o Rows(sorted)

\* the query of lines 234-264: List(), or Read(opts...)
\* (absent only when the name is required and missing)
\* faulty variant: the runtime flag is not looked at
GetQueryIgnoringRuntime ==
    IF Len(args) = 0 \/ args[1] # SERVICE
    THEN [op |-> "List", service |-> EmptyStr, version |-> EmptyStr, type |-> ""]
    ELSE [op |-> "Read", service |-> nameFlag, version |-> versionFlag, type |-> ""]

GetQuery ==
    IF Len(args) = 0 \/ args[1] # SERVICE
    THEN IF runType
         THEN [op |-> "Read", service |-> EmptyStr, version |-> EmptyStr, type |-> "runtime"]
         ELSE [op |-> "List", service |-> EmptyStr, version |-> EmptyStr, type |-> ""]
    ELSE [op |-> "Read", service |-> nameFlag, version |-> versionFlag,
          type |-> IF runType THEN "runtime" ELSE ""]

\* lines 209-299
getService ==
    /\ cmd = "get"
    /\ pc = "entry"
    /\ backend' = IF local THEN "local" ELSE "remote"
    /\ IF ~(Len(args) = 0 \/ args[1] # SERVICE) /\ Len(nameFlag) = 0
       THEN /\ stdout' = Append(stdout, Line("usage", "GetUsage"))
            /\ Return("usage")
            /\ UNCHANGED <<calls, readArgs, services>>
       ELSE \E ok \in BOOLEAN, result \in ServiceLists :
            /\ calls' = Append(calls, Call(GetQuery.op, ok))
            /\ readArgs' = IF GetQuery.op = "Read"
                           THEN Append(readArgs, GetQuery) ELSE readArgs
            /\ IF ~ok
               THEN /\ services' = <<>>
                    /\ stdout' = Append(stdout, Line("error", GetQuery.op))
                    /\ Return("queryErr")
               ELSE /\ services' = result
                    /\ \E sorted \in Sorted(result) :
                        stdout' = stdout \o Render(sorted)
                    /\ Return("ok")
    /\ UNCHANGED <<inputs, chdir, cwd, name, source, exec, service, started, initArgs,
                   createArgs, deleteArgs, notified, shutdown, received, sigCount>>

-----------------------------------------------------------------------------

Next ==
    \/ runService
    \/ killService
    \/ getService
    \/ DeliverSignal

Spec == Init /\ [][Next]_vars

\* the command's own steps are taken as long as one is possible; signals
\* arrive or not as the environment pleases
FairSpec == Spec /\ WF_vars(runService) /\ WF_vars(killService) /\ WF_vars(getService)

-----------------------------------------------------------------------------
(* Vocabulary of the properties *)

\* how often the backend operation `op` has been called
Count(op) == Cardinality({i \in DOMAIN calls : calls[i].op = op})

\* the backend operation `op` has been called and has failed
Failed(op) == \E i \in DOMAIN calls : calls[i].op = op /\ ~calls[i].ok

\* the names of the operations called, in order
OpsCalled == [i \in DOMAIN calls |-> calls[i].op]

IsPrefix(s, t) == Len(s) <= Len(t) /\ SubSeq(t, 1, Len(s)) = s

LocalRun == cmd = "run" /\ local
RemoteRun == cmd = "run" /\ ~local

\* the three calls a local run has made when it starts to wait
Created == <<Call("Init", TRUE), Call("Start", TRUE), Call("Create", TRUE)>>

\* the states of the shutdown coordinator of a local run
Coordinator ==
    IF ~LocalRun THEN "none"
    ELSE CASE pc = "notify" -> "Running"
           [] pc = "wait" -> "AwaitingSignal"
           [] pc = "delete" \/ status = "deleteErr" -> "Deleting"
           [] pc = "stop" \/ status = "stopErr" -> "Stopping"
           [] pc = "done" /\ status = "ok" -> "Terminated"
           [] OTHER -> "none"

\* n is the last path segment of the path s: the characters between the last
\* separator that is followed by a segment and the end (or the trailing
\* separators) of s; the path of separators only has the segment "/"
IsLastSegment(n, s) ==
    \/ /\ Len(s) > 0
       /\ \A i \in 1..Len(s) : s[i] = Sep
       /\ n = <<Sep>>
    \/ /\ Len(n) > 0
       /\ \A i \in 1..Len(n) : n[i] # Sep
       /\ \E k \in 0..Len(s) :
            /\ k + Len(n) <= Len(s)
            /\ SubSeq(s, k + 1, k + Len(n)) = n
            /\ k = 0 \/ s[k] = Sep
            /\ \A i \in (k + Len(n) + 1)..Len(s) : s[i] = Sep

-----------------------------------------------------------------------------
(* C1: in a local run whose Start and Create succeeded, once the signal    *)
(* has been received the coordinator goes Deleting, Stopping, Terminated:  *)
(* Delete is called once, then Stop once, never in another order, neither  *)
(* step can block, and when both succeed the command has terminated with   *)
(* the backend stopped.  The coordinator's states follow one another in    *)
(* the order Running, AwaitingSignal, Deleting, Stopping, Terminated.      *)
C1_TeardownState ==
    (LocalRun /\ Len(received) > 0) =>
        /\ IsPrefix(Created, calls)
        /\ pc \in {"delete", "stop", "done", "killed"}
        /\ pc = "delete" => calls = Created /\ ENABLED RunDelete
        /\ pc = "stop" => calls = Created \o <<Call("Delete", TRUE)>> /\ ENABLED RunStop
        /\ pc = "done" =>
             \/ calls = Created \o <<Call("Delete", FALSE)>> /\ status = "deleteErr"
             \/ calls = Created \o <<Call("Delete", TRUE), Call("Stop", FALSE)>>
                  /\ status = "stopErr"
             \/ calls = Created \o <<Call("Delete", TRUE), Call("Stop", TRUE)>>
                  /\ status = "ok" /\ ~started
        /\ IsPrefix(OpsCalled, <<"Init", "Start", "Create", "Delete", "Stop">>)
        /\ Len(deleteArgs) = Count("Delete")
        /\ \A i \in DOMAIN deleteArgs : deleteArgs[i] = service[1]

C1_CoordinatorStep ==
    LET before == Coordinator
        after == Coordinator'
    IN  \/ after = before
        \/ pc' = "killed"
        \/ before = "none" /\ after \in {"Running", "none"}
        \/ before = "Running" /\ after = "AwaitingSignal"
        \/ before = "AwaitingSignal" /\ after = "Deleting" /\ Len(received') = 1
        \/ before = "Deleting" /\ after = "Stopping"
        \/ before = "Stopping" /\ after = "Terminated"

C1_SignalDrivesTeardown == []C1_TeardownState /\ [][C1_CoordinatorStep]_vars

C1_Witness ==
    /\ LocalRun
    /\ sigCount = 1
    /\ received = <<"SIGINT">>
    /\ Coordinator = "Terminated"
    /\ OpsCalled = <<"Init", "Start", "Create", "Delete", "Stop">>

(* C2: in the shutdown sequence of a local run, when Delete fails Stop is  *)
(* never called: the error is printed and the command has halted in        *)
(* Deleting, the backend still started.                                    *)
C2_DeleteFailureSkipsStop ==
    (LocalRun /\ Failed("Delete")) =>
        /\ Count("Stop") = 0
        /\ calls[Len(calls)] = Call("Delete", FALSE)
        /\ pc = "done"
        /\ Coordinator = "Deleting"
        /\ started
        /\ stdout[Len(stdout)] = Line("error", "Delete")

C2_Witness ==
    /\ LocalRun
    /\ Failed("Delete")
    /\ Len(received) = 1

(* C3: whatever the command and the backend, a Create, Delete, List or     *)
(* Read is issued only after a Start that succeeded.                       *)
C3_StartBeforeLifecycle ==
    \A i \in DOMAIN calls :
        calls[i].op \in {"Create", "Delete", "List", "Read"} =>
            \E j \in 1..(i - 1) : calls[j] = Call("Start", TRUE)

(* C4: in the run command, when Start fails the command aborts: no Create, *)
(* no signal wait, no Delete and no Stop.                                  *)
C4_StartFailureAborts ==
    (cmd = "run" /\ Failed("Start")) =>
        /\ pc = "done"
        /\ status = "startErr"
        /\ calls[Len(calls)] = Call("Start", FALSE)
        /\ Count("Start") = 1
        /\ Count("Create") = 0 /\ createArgs = <<>>
        /\ Count("Delete") = 0 /\ deleteArgs = <<>>
        /\ Count("Stop") = 0
        /\ ~notified /\ received = <<>>
        /\ ~started

C4_Witness ==
    /\ cmd = "run"
    /\ Failed("Start")
    /\ pc = "done"

(* C5: a remote run whose resolved source is empty (the positional         *)
(* argument is "service", or is itself empty, and the source flag is empty *)
(* in the first case) fails with the usage message and calls nothing on    *)
(* the backend.                                                            *)
C5_RemoteNeedsSource ==
    (/\ RemoteRun
     /\ Len(args) > 0
     /\ \/ args[1] = SERVICE /\ sourceFlag = EmptyStr
        \/ args[1] = EmptyStr) =>
        /\ calls = <<>>
        /\ createArgs = <<>>
        /\ ~started
        /\ pc \in {"entry", "done", "killed"}
        /\ pc = "done" => status = "missingSource" /\ stdout = <<Line("usage", "RunUsage")>>

C5_Witness ==
    /\ RemoteRun
    /\ args = <<SERVICE>>
    /\ sourceFlag = EmptyStr
    /\ status = "missingSource"

(* C6: a remote run never enters the shutdown coordinator: it registers   *)
(* for no signal, waits for none and calls neither Delete nor Stop, and    *)
(* once Create has returned, with or without an error, the command has     *)
(* returned.                                                               *)
C6_RemoteRunReturnsAfterCreate ==
    RemoteRun =>
        /\ ~notified /\ shutdown = <<>> /\ received = <<>>
        /\ Coordinator = "none"
        /\ pc \notin {"notify", "wait", "delete", "stop"}
        /\ Count("Delete") = 0 /\ deleteArgs = <<>>
        /\ Count("Stop") = 0
        /\ Count("Create") > 0 =>
             /\ Count("Create") = 1
             /\ pc = "done"
             /\ calls[Len(calls)].op = "Create"
             /\ status = IF calls[Len(calls)].ok THEN "ok" ELSE "createErr"

C6_Witness ==
    /\ RemoteRun
    /\ calls = <<Call("Start", TRUE), Call("Create", TRUE)>>
    /\ pc = "done"

(* C7 as stated: a remote run given only a non-empty source flag S (no     *)
(* positional argument, no name flag) whose Start does not fail ends       *)
(* having called Create once, for the service named by the last segment of *)
(* S and with a command that targets S.                                    *)
C7_SourceFlagAlone ==
    (/\ RemoteRun
     /\ args = <<>>
     /\ Len(sourceFlag) > 0
     /\ nameFlag = EmptyStr
     /\ pc = "done"
     /\ ~Failed("Start")) =>
        /\ Count("Create") = 1
        /\ Len(createArgs) = 1
        /\ IsLastSegment(createArgs[1].service.Name, sourceFlag)
        /\ createArgs[1].exec = <<GO, RUN, sourceFlag>>

(* C7 amended: the same with the positional keyword "service" given; the   *)
(* command never waits for a signal.  Without any positional argument the  *)
(* command prints the usage message and calls nothing on the backend.      *)
C7_SourceFlagWithKeyword ==
    (/\ RemoteRun
     /\ Len(sourceFlag) > 0
     /\ nameFlag = EmptyStr) =>
        /\ (args = <<SERVICE>> /\ pc = "done" /\ ~Failed("Start")) =>
             /\ OpsCalled = <<"Start", "Create">>
             /\ Len(createArgs) = 1
             /\ IsLastSegment(createArgs[1].service.Name, sourceFlag)
             /\ createArgs[1].service.Source = sourceFlag
             /\ createArgs[1].exec = <<GO, RUN, sourceFlag>>
        /\ (args = <<>> /\ pc = "done") =>
             /\ calls = <<>>
             /\ stdout = <<Line("usage", "RunUsage")>>
        /\ pc # "wait" /\ ~notified

C7_Witness ==
    /\ RemoteRun
    /\ args = <<SERVICE>>
    /\ sourceFlag = <<"b", Sep, "a">>
    /\ nameFlag = EmptyStr
    /\ pc = "done"
    /\ calls = <<Call("Start", TRUE), Call("Create", TRUE)>>
    /\ createArgs[1].service.Name = <<"a">>

(* C8: in a local run neither Delete nor Stop is called, nor about to be,  *)
(* before a signal among SIGTERM, SIGINT and SIGQUIT has been received;    *)
(* while none has arrived the waiting command can take no step; one signal *)
(* is received, and however many arrive Delete and Stop are called at most *)
(* once each.                                                              *)
C8_TeardownOnlyOnSignal ==
    LocalRun =>
        /\ (Count("Delete") > 0 \/ Count("Stop") > 0 \/ pc \in {"delete", "stop"}) =>
             /\ Len(received) = 1
             /\ received[1] \in Qualifying
        /\ Len(received) <= 1
        /\ Count("Delete") <= 1
        /\ Count("Stop") <= 1
        /\ (pc = "wait" /\ shutdown = <<>>) =>
             /\ ~ENABLED runService
             /\ received = <<>>
             /\ calls = Created

C8_Witness ==
    /\ LocalRun
    /\ sigCount >= 2
    /\ Len(received) = 1
    /\ Count("Delete") = 1
    /\ Count("Stop") = 1
    /\ status = "ok"

(* C9: with an empty name flag the run command names the service by the    *)
(* last path segment of the resolved source when that is not empty (the    *)
(* leaf of "<prefix>/<leaf>"), else by the last path segment of the        *)
(* working directory; the name is never empty and it is the name of the    *)
(* service given to Create and to Delete.                                  *)
C9_NameResolution ==
    (cmd = "run" /\ backend # "none") =>
        /\ source = IF args[1] = SERVICE THEN sourceFlag ELSE args[1]
        /\ Len(name) > 0
        /\ nameFlag # EmptyStr => name = nameFlag
        /\ (nameFlag = EmptyStr /\ Len(source) > 0) =>
             /\ IsLastSegment(name, source)
             /\ \A k \in 1..(Len(source) - 1) :
                  (source[k] = Sep /\ \A i \in (k + 1)..Len(source) : source[i] # Sep)
                      => name = Tail2(source, k + 1)
        /\ (nameFlag = EmptyStr /\ Len(source) = 0) =>
             IF cwd = EmptyStr THEN name = DOT ELSE IsLastSegment(name, cwd)
        /\ \A i \in DOMAIN initArgs : initArgs[i].Name = name
        /\ \A i \in DOMAIN createArgs : createArgs[i].service.Name = name
        /\ \A i \in DOMAIN deleteArgs : deleteArgs[i].Name = name

C9_Witness ==
    /\ LocalRun
    /\ nameFlag = EmptyStr
    /\ source = <<"a", Sep, "b">>
    /\ name = <<"b">>
    /\ Len(createArgs) = 1
    /\ Len(deleteArgs) = 1

(* C10: the environment given to Create is the ambient variables that      *)
(* carry the prefix MICRO_, in ambient order, followed by the segments of  *)
(* each --env entry: split on commas, trimmed, the empty ones discarded,   *)
(* in order, duplicates kept; it never holds an empty string.              *)
NonEmpty(e) == Len(e) > 0
HasMicroPrefix(e) == HasPrefix(e, MicroPrefix)

TrimmedSegments(entry) ==
    LET segs == Split(entry, Comma)
    IN  SelectSeq([i \in DOMAIN segs |-> TrimSpace(segs[i])], NonEmpty)

RECURSIVE AllSegments(_)
AllSegments(entries) ==
    IF entries = <<>> THEN <<>>
    ELSE TrimmedSegments(Head(entries)) \o AllSegments(Tail(entries))

C10_ComposedEnvironment ==
    \A i \in DOMAIN createArgs :
        /\ createArgs[i].env = SelectSeq(osEnviron, HasMicroPrefix) \o AllSegments(envFlag)
        /\ \A j \in DOMAIN createArgs[i].env : createArgs[i].env[j] # EmptyStr

-----------------------------------------------------------------------------
(* Vocabulary of the table *)

\* the one-to-one mappings of 1..n onto itself
Bijections(n) ==
    {f \in [1..n -> 1..n] : \A i, j \in 1..n : i # j => f[i] # f[j]}

\* s comes before t, or is t, in lexicographic (byte) order
LexLeq(s, t) ==
    \/ IsPrefix(s, t)
    \/ \E k \in 1..Len(s) :
        /\ k <= Len(t)
        /\ SubSeq(s, 1, k - 1) = SubSeq(t, 1, k - 1)
        /\ CharRank(s[k]) < CharRank(t[k])

\* the names of the services the backend returned, in its order
ReturnedNames == [i \in DOMAIN services |-> services[i].Name]

\* the NAME cells of the rows printed, in order
PrintedNames ==
    LET rows == SelectSeq(stdout, LAMBDA l : l.kind = "row")
    IN  [i \in DOMAIN rows |-> rows[i].text[1]]

\* the query of a get command was answered without error
GetAnswered == cmd = "get" /\ pc = "done" /\ status = "ok"

\* the positional keyword "service" was given
KeywordGiven == Len(args) > 0 /\ args[1] = SERVICE

(* C11: the table is nothing at all for an empty list; for a non-empty     *)
(* list it is one header followed by one row per service returned, the     *)
(* rows being the services' rows rearranged so that the names ascend in    *)
(* lexicographic order.                                                    *)
C11_TablePresenter ==
    GetAnswered =>
        IF services = <<>>
        THEN stdout = <<>>
        ELSE /\ Len(stdout) = Len(services) + 1
             /\ stdout[1].kind = "header"
             /\ stdout[1].text = Header
             /\ \A i \in 2..Len(stdout) : stdout[i].kind = "row"
             /\ \E f \in Bijections(Len(services)) :
                  \A i \in DOMAIN services : stdout[i + 1].text = Row(services[f[i]])
             /\ \A i \in 1..(Len(PrintedNames) - 1) :
                  LexLeq(PrintedNames[i], PrintedNames[i + 1])

C11_Witness ==
    /\ GetAnswered
    /\ ReturnedNames = <<<<"b">>, EmptyStr>>
    /\ PrintedNames = <<EmptyStr, <<"b">>>>
    /\ Len(stdout) = 3

C11_WitnessEmpty ==
    /\ GetAnswered
    /\ services = <<>>
    /\ stdout = <<>>

(* C12: in every row each field that is empty (NAME, VERSION, SOURCE,      *)
(* STATUS, BUILD, and the owner and the group of METADATA) is printed as   *)
(* "n/a", and no cell is empty.                                            *)
Sentinel(field) == IF field = EmptyStr THEN NA ELSE field

SentinelRow(s) ==
    <<Sentinel(s.Name),
      Sentinel(s.Version),
      Sentinel(s.Source),
      Sentinel(MetaGet(s.Metadata, "status")),
      Sentinel(MetaGet(s.Metadata, "build")),
      OWNER_EQ \o Sentinel(MetaGet(s.Metadata, "owner"))
          \o GROUP_EQ \o Sentinel(MetaGet(s.Metadata, "group"))>>

C12_EmptyFieldsAsSentinel ==
    (GetAnswered /\ services # <<>>) =>
        /\ \E f \in Bijections(Len(services)) :
             \A i \in DOMAIN services :
                /\ stdout[i + 1].kind = "row"
                /\ stdout[i + 1].text = SentinelRow(services[f[i]])
        /\ \A i \in DOMAIN stdout :
             stdout[i].kind = "row" =>
                \A c \in DOMAIN stdout[i].text : stdout[i].text[c] # EmptyStr

(* C13 as stated: get with the positional keyword "service" and no name    *)
(* queries the backend, and prints the rows a, b when the backend answers  *)
(* with the services b and a.                                              *)
C13_KeywordWithoutNameLists ==
    (cmd = "get" /\ KeywordGiven /\ nameFlag = EmptyStr /\ pc = "done") =>
        /\ Len(calls) = 1
        /\ (calls[1].ok /\ ReturnedNames = <<<<"b">>, <<"a">>>>) =>
              PrintedNames = <<<<"a">>, <<"b">>>>

(* C13 amended: get without the positional keyword "service" is a list: it *)
(* issues one query (List, or Read when the runtime flag is set) and       *)
(* prints the rows a, b when the backend answers with b and a; get with    *)
(* the keyword and no name prints the usage message and queries nothing.   *)
C13_ListWithoutKeyword ==
    (cmd = "get" /\ pc = "done") =>
        /\ ~KeywordGiven =>
             /\ Len(calls) = 1
             /\ calls[1].op = IF runType THEN "Read" ELSE "List"
             /\ (calls[1].ok /\ ReturnedNames = <<<<"b">>, <<"a">>>>) =>
                  /\ Len(stdout) = 3
                  /\ stdout[1].kind = "header"
                  /\ PrintedNames = <<<<"a">>, <<"b">>>>
        /\ (KeywordGiven /\ nameFlag = EmptyStr) =>
             /\ calls = <<>>
             /\ stdout = <<Line("usage", "GetUsage")>>

C13_Witness ==
    /\ cmd = "get"
    /\ args = <<>>
    /\ nameFlag = EmptyStr
    /\ calls = <<Call("List", TRUE)>>
    /\ ReturnedNames = <<<<"b">>, <<"a">>>>
    /\ PrintedNames = <<<<"a">>, <<"b">>>>

-----------------------------------------------------------------------------
(* C14: the kill command calls nothing but Delete, at most once, for the   *)
(* service of the given name and version; it never starts, stops or        *)
(* creates; when Delete fails the error is printed and the command has     *)
(* returned, the failed Delete being its only backend call.                *)
C14_KillDeletesOnce ==
    cmd = "kill" =>
        /\ Len(calls) <= 1
        /\ \A i \in DOMAIN calls : calls[i].op = "Delete"
        /\ Len(deleteArgs) = Len(calls)
        /\ \A i \in DOMAIN deleteArgs :
             /\ deleteArgs[i].Name = nameFlag
             /\ deleteArgs[i].Version = versionFlag
        /\ createArgs = <<>> /\ ~started
        /\ (pc = "done" /\ KeywordGiven /\ nameFlag # EmptyStr) => Len(calls) = 1
        /\ Failed("Delete") =>
             /\ pc = "done"
             /\ status = "deleteErr"
             /\ stdout = <<Line("error", "Delete")>>

C14_Witness ==
    /\ cmd = "kill"
    /\ versionFlag = LATEST
    /\ calls = <<Call("Delete", FALSE)>>
    /\ deleteArgs[1].Name = DEMO

(* C15: when the required input is missing (run without positional         *)
(* argument; kill without the keyword "service" or without name; get with  *)
(* the keyword and without name) the command prints its usage message and  *)
(* calls nothing on the backend.                                           *)
InputMissing ==
    CASE cmd = "run" -> Len(args) = 0
      [] cmd = "kill" -> ~KeywordGiven \/ nameFlag = EmptyStr
      [] cmd = "get" -> KeywordGiven /\ nameFlag = EmptyStr

UsageOf(c) ==
    CASE c = "run" -> "RunUsage"
      [] c = "kill" -> "KillUsage"
      [] c = "get" -> "GetUsage"

C15_MissingInputPrintsUsage ==
    InputMissing =>
        /\ calls = <<>>
        /\ initArgs = <<>> /\ createArgs = <<>> /\ deleteArgs = <<>> /\ readArgs = <<>>
        /\ ~started
        /\ pc \in {"entry", "done", "killed"}
        /\ pc = "done" =>
             /\ status = "usage"
             /\ stdout = <<Line("usage", UsageOf(cmd))>>

C15_Witness ==
    /\ cmd = "kill"
    /\ args = <<SERVICE>>
    /\ nameFlag = EmptyStr
    /\ pc = "done"
    /\ stdout = <<Line("usage", "KillUsage")>>

(* C16: in a local run a termination signal (SIGTERM, SIGINT, SIGQUIT)     *)
(* that arrives at any time after Create succeeded is not lost: the        *)
(* process is never ended by it without the teardown.                      *)
C16_SignalAfterCreateKept ==
    (LocalRun /\ pc = "killed" /\ status \in Qualifying) =>
        \A i \in DOMAIN calls : calls[i] # Call("Create", TRUE)

(* C17: in a local run a failed Create is terminal: the command has        *)
(* returned, it registered for no signal and waits for none, and it calls  *)
(* neither Delete nor Stop, so that the backend stays started.             *)
C17_CreateFailureIsTerminal ==
    (LocalRun /\ Failed("Create")) =>
        /\ pc = "done"
        /\ status = "createErr"
        /\ calls = <<Call("Init", TRUE), Call("Start", TRUE), Call("Create", FALSE)>>
        /\ stdout = <<Line("error", "Create")>>
        /\ ~notified /\ shutdown = <<>> /\ received = <<>>
        /\ Coordinator = "none"
        /\ deleteArgs = <<>>
        /\ started

C17_Witness ==
    /\ LocalRun
    /\ Failed("Create")
    /\ Len(createArgs) = 1

(* C18 as stated: the command given to Create is go run <source> in remote *)
(* mode, and in local mode go run . rewritten to go run <source> whenever  *)
(* the source is not empty.                                                *)
C18_LocalExecTargetsSource ==
    \A i \in DOMAIN createArgs :
        createArgs[i].exec =
            IF local /\ Len(source) = 0 THEN <<GO, RUN, DOT>> ELSE <<GO, RUN, source>>

(* C18 amended: in local mode the command is rewritten to go run <source>  *)
(* only when the source is not empty and the working directory could not   *)
(* be changed to it; when it could, the command stays go run . and the     *)
(* working directory is the source's.                                      *)
C18_ExecCommand ==
    cmd = "run" =>
        /\ \A i \in DOMAIN createArgs :
             createArgs[i].exec =
                IF ~local \/ chdir = "failed"
                THEN <<GO, RUN, source>>
                ELSE <<GO, RUN, DOT>>
        /\ (local /\ backend # "none") => (chdir = "none" <=> Len(source) = 0)
        /\ ~local => chdir = "none"
        /\ (chdir = "ok" /\ source[1] = Sep) => cwd = source

C18_Witness ==
    /\ LocalRun
    /\ source = SomeSource
    /\ chdir = "ok"
    /\ Len(createArgs) = 1
    /\ createArgs[1].exec = <<GO, RUN, DOT>>

(* C19: the backend calls of one run are a prefix of Init (local mode      *)
(* only), Start, Create, Delete, Stop, the last two in local mode only;    *)
(* each is made at most once and only after every earlier one succeeded.   *)
C19_RunCallSequence ==
    cmd = "run" =>
        /\ IsPrefix(OpsCalled, IF local
                               THEN <<"Init", "Start", "Create", "Delete", "Stop">>
                               ELSE <<"Start", "Create">>)
        /\ \A i \in 1..(Len(calls) - 1) : calls[i].ok
        /\ Len(initArgs) = Count("Init")
        /\ Len(createArgs) = Count("Create")
        /\ Len(deleteArgs) = Count("Delete")
        /\ readArgs = <<>>

C19_Witness ==
    /\ LocalRun
    /\ calls = Created \o <<Call("Delete", TRUE), Call("Stop", FALSE)>>

(* C20: the get command makes at most one backend call, a List or a Read,  *)
(* never a Create, Delete or Stop.  Without the keyword "service" it is    *)
(* List, or Read of type runtime when the runtime flag is set, the name    *)
(* and version flags unused; with the keyword and a name it is Read with   *)
(* the name and the version, of type runtime exactly when the flag is set. *)
(* When the query fails no table is printed.                               *)
C20_GetIssuesOneQuery ==
    cmd = "get" =>
        /\ Len(calls) <= 1
        /\ \A i \in DOMAIN calls : calls[i].op \in {"List", "Read"}
        /\ initArgs = <<>> /\ createArgs = <<>> /\ deleteArgs = <<>>
        /\ ~started
        /\ Len(readArgs) = Count("Read")
        /\ pc = "done" =>
             IF ~KeywordGiven
             THEN IF runType
                  THEN /\ OpsCalled = <<"Read">>
                       /\ readArgs[1].service = EmptyStr
                       /\ readArgs[1].version = EmptyStr
                       /\ readArgs[1].type = "runtime"
                  ELSE OpsCalled = <<"List">>
             ELSE IF nameFlag # EmptyStr
                  THEN /\ OpsCalled = <<"Read">>
                       /\ readArgs[1].service = nameFlag
                       /\ readArgs[1].version = versionFlag
                       /\ readArgs[1].type = IF runType THEN "runtime" ELSE ""
                  ELSE calls = <<>>
        /\ (\E i \in DOMAIN calls : ~calls[i].ok) =>
             /\ Len(stdout) = 1
             /\ stdout[1].kind = "error"

C20_Witness ==
    /\ cmd = "get"
    /\ ~KeywordGiven
    /\ runType
    /\ nameFlag = DEMO
    /\ versionFlag = LATEST
    /\ calls = <<Call("Read", FALSE)>>
    /\ readArgs[1].service = EmptyStr

====
